---- MODULE Spec2Model ----
(***************************************************************************)
(* Drift-detection Telegram notifier (scripts/drift-detection).            *)
(*                                                                         *)
(* A Python str is a sequence of one-character strings; a character that   *)
(* the module's string syntax cannot hold (an emoji, a box-drawing line)   *)
(* is one element named by its code point, so that len() counts it as one. *)
(***************************************************************************)
EXTENDS Integers, Sequences, FiniteSets, TLC

VARIABLES
    message,        \* split_message: the composed message
    max_length,     \* split_message: max_length argument
    s_pc,           \* split_message: position (idle, start, fallback, label, done, raised)
    part_contents,  \* split_message: list of chunks
    long_content,   \* split_message: remainder inside the fallback loop
    parts,          \* split_message: the returned NotificationPart list
    event,          \* send_notification: the DriftDetectionEvent argument
    config,         \* TelegramNotifier.config
    bot,            \* TelegramNotifier.bot
    retry_handler,  \* TelegramNotifier.retry_handler (a RetryHandler)
    notification,   \* send_notification: the TelegramNotification record
    n_pc,           \* send_notification: position (idle, split, init, getme, loop, awaiting,
                    \*   backoff, pacing, returned, raised)
    part_idx,       \* send_notification: index of the part the loop is at
    attempt,        \* execute_with_retry: the loop variable
    raised,         \* the exception that left send_notification, or None
    inflight,       \* transport: parts whose send_message call has not returned
    calls,          \* transport: per part, the number of send_message calls made
    attempt_log,    \* transport: the outcome of each send_message call for the part
                    \*   the loop is at, in order ("ok" or the exception class)
    get_me_calls,   \* transport: number of get_me calls
    sleeps,         \* asyncio.sleep: the delays slept so far, in order
    delay_attempt,  \* calculate_delay: the attempt argument of the last call
    delay_result,   \* calculate_delay: the value the last call returned
    escape_text,    \* escape_markdown: the text argument of the last call
    escape_result,  \* escape_markdown: the value the last call returned
    m_pc,           \* main: position (none, start, sending, closing, returned, escaped)
    exit_code,      \* main: the exit code returned, as a list (empty until main returns)
    peer_pc         \* a peer flow on the same notifier: position (idle, getme, shutdown)

split_vars == <<message, max_length, s_pc, part_contents, long_content, parts>>

send_vars == <<event, config, bot, retry_handler, notification, n_pc, part_idx, attempt,
               raised, inflight, calls, attempt_log, get_me_calls, sleeps>>

delay_vars == <<delay_attempt, delay_result>>

escape_vars == <<escape_text, escape_result>>

main_vars == <<m_pc, exit_code>>

peer_vars == <<peer_pc>>

vars == <<split_vars, send_vars, delay_vars, escape_vars, main_vars, peer_vars>>

\* None, where the value is otherwise a str
None == "None"

\* None, where the value is otherwise a positive int (a Telegram message id)
NoId == 0

NL == "\n"
BELL == "U+1F514"
BOX == "U+2501"

\* ------------------------------------------------------------------------
\* Python str primitives
\* ------------------------------------------------------------------------

Min(a, b) == IF a <= b THEN a ELSE b
Max(a, b) == IF a >= b THEN a ELSE b

Rep(c, n) == [i \in 1..n |-> c]

\* A slice bound as CPython normalises it: negative counts from the end,
\* then clamped to 0..len.
PyIndex(k, n) == IF k < 0 THEN Max(k + n, 0) ELSE Min(k, n)

\* s[i:j]
Slice(s, i, j) ==
    LET a == PyIndex(i, Len(s))
        b == PyIndex(j, Len(s))
    IN  IF a < b THEN SubSeq(s, a + 1, b) ELSE <<>>

\* s[:j]
SliceTo(s, j) == Slice(s, 0, j)

\* s[i:]
SliceFrom(s, i) == Slice(s, i, Len(s))

\* s.find(sub): lowest index of sub in s, -1 when absent
Find(s, sub) ==
    LET hits == {i \in 0..(Len(s) - Len(sub)) : SubSeq(s, i + 1, i + Len(sub)) = sub}
    IN  IF hits = {} THEN -1 ELSE CHOOSE i \in hits : \A j \in hits : i <= j

\* s.rfind('\n', 0, end): highest index of a newline inside s[0:end], -1 when absent
RFindNL(s, end) ==
    LET e == PyIndex(end, Len(s))
        hits == {p \in 0..(e - 1) : s[p + 1] = NL}
    IN  IF hits = {} THEN -1 ELSE CHOOSE p \in hits : \A q \in hits : q <= p

\* s.split("\n\n")
RECURSIVE SplitNN(_)
SplitNN(s) ==
    LET idx == Find(s, <<NL, NL>>)
    IN  IF idx = -1 THEN <<s>>
        ELSE <<SliceTo(s, idx)>> \o SplitNN(SliceFrom(s, idx + 2))

\* the characters str.strip() removes: every character whose isspace() is
\* true; those with no escape in a TLA+ string are written as their code point
Whitespace ==
    {" ", NL, "\t", "\r", "\f", "U+000B", "U+001C", "U+001D", "U+001E", "U+001F",
     "U+0085", "U+00A0", "U+1680", "U+2000", "U+2001", "U+2002", "U+2003", "U+2004",
     "U+2005", "U+2006", "U+2007", "U+2008", "U+2009", "U+200A", "U+2028", "U+2029",
     "U+202F", "U+205F", "U+3000"}

\* not s.strip()
IsBlank(s) == \A i \in 1..Len(s) : s[i] \in Whitespace

\* s.lstrip('\n')
LStripNL(s) ==
    LET lead == {k \in 0..Len(s) : \A i \in 1..k : s[i] = NL}
        k == CHOOSE k \in lead : \A j \in lead : j <= k
    IN  SliceFrom(s, k)

DigitChar(d) == <<"0", "1", "2", "3", "4", "5", "6", "7", "8", "9">>[d + 1]

\* str(n) for n >= 0
RECURSIVE Digits(_)
Digits(n) == IF n < 10 THEN <<DigitChar(n)>> ELSE Digits(n \div 10) \o <<DigitChar(n % 10)>>

separator == Rep(BOX, 16)

\* ------------------------------------------------------------------------
\* models.py: ResourceChange, DriftDetectionEvent
\* ------------------------------------------------------------------------

BACKTICK == "U+0060"
SIREN == "U+1F6A8"
CHECKMARK == "U+2705"
TICK == "U+2713"
CROSS == "U+274C"
PLUS == "U+2795"
MEMO == "U+1F4DD"
CYCLE == "U+1F504"
BULLET == "U+2022"
A_CIRC == "U+00E2"
DAGGER == "U+2020"
RQUOTE == "U+2019"

AsciiPrintable ==
    <<" ", "!", "\"", "#", "$", "%", "&", "'", "(", ")", "*", "+", ",", "-", ".", "/",
      "0", "1", "2", "3", "4", "5", "6", "7", "8", "9", ":", ";", "<", "=", ">", "?", "@",
      "A", "B", "C", "D", "E", "F", "G", "H", "I", "J", "K", "L", "M", "N", "O", "P", "Q",
      "R", "S", "T", "U", "V", "W", "X", "Y", "Z", "[", "\\", "]", "^", "_", BACKTICK, "a",
      "b", "c", "d", "e", "f", "g", "h", "i", "j", "k", "l", "m", "n", "o", "p", "q", "r",
      "s", "t", "u", "v", "w", "x", "y", "z", "{", "|", "}", "~">>

\* ord(c) of a printable ASCII character
Code(c) == 31 + (CHOOSE i \in 1..Len(AsciiPrintable) : AsciiPrintable[i] = c)

\* a < b on str: lexicographic by code point
StrLess(a, b) ==
    \E k \in 0..Min(Len(a), Len(b)) :
        /\ \A i \in 1..k : a[i] = b[i]
        /\ \/ (k = Len(a) /\ k < Len(b))
           \/ (k < Len(a) /\ k < Len(b) /\ Code(a[k + 1]) < Code(b[k + 1]))

\* sorted(S) for a set of str
RECURSIVE Sorted(_)
Sorted(S) ==
    IF S = {} THEN <<>>
    ELSE LET m == CHOOSE x \in S : \A y \in S \ {x} : StrLess(x, y)
         IN  <<m>> \o Sorted(S \ {m})

\* sep.join(items)
RECURSIVE Join(_, _)
Join(items, sep) ==
    IF Len(items) = 0 THEN <<>>
    ELSE IF Len(items) = 1 THEN items[1]
    ELSE items[1] \o sep \o Join(Tail(items), sep)

\* ActionType values
ActionValues == {"create", "update", "delete", "replace", "no-op"}

Str_create ==
    <<"c", "r", "e", "a", "t", "e">>

Str_update ==
    <<"u", "p", "d", "a", "t", "e">>

Str_delete ==
    <<"d", "e", "l", "e", "t", "e">>

Str_replace ==
    <<"r", "e", "p", "l", "a", "c", "e">>

Str_no_op ==
    <<"n", "o", "-", "o", "p">>

\* action.value as a str
ActionStr(a) ==
    CASE a = "create" -> Str_create
      [] a = "update" -> Str_update
      [] a = "delete" -> Str_delete
      [] a = "replace" -> Str_replace
      [] a = "no-op" -> Str_no_op

ActionPrefix ==
    <<"A", "c", "t", "i", "o", "n", ":", " ">>

NotSet ==
    <<"[", "n", "o", "t", " ", "s", "e", "t", "]">>

Arrow ==
    <<" ", A_CIRC, DAGGER, RQUOTE, " ">>

\* An Optional[dict] is [is_none, pairs]: pairs is the sequence of <<key, value>>
\* items in insertion order, keys distinct.
NoneDict == [is_none |-> TRUE, pairs |-> <<>>]
Dict(pairs) == [is_none |-> FALSE, pairs |-> pairs]

\* d.keys()
DictKeys(d) == {d.pairs[i][1] : i \in 1..Len(d.pairs)}

\* d.get(key, default)
DictGet(d, key, default) ==
    IF key \in DictKeys(d)
    THEN (CHOOSE p \in {d.pairs[i] : i \in 1..Len(d.pairs)} : p[1] = key)[2]
    ELSE default

\* not d, for an Optional[dict]: None and the empty dict are both falsy
DictFalsy(d) == d.is_none \/ d.pairs = <<>>

\* ResourceChange.display_name
display_name(change) == change.resource_type \o <<".">> \o change.resource_name

RECURSIVE SummaryLines(_, _, _)
SummaryLines(keys, before, after) ==
    IF keys = <<>> THEN <<>>
    ELSE LET key == Head(keys)
             before_val == DictGet(before, key, NotSet)
             after_val == DictGet(after, key, NotSet)
         IN  (IF before_val # after_val
              THEN <<key \o <<":", " ">> \o before_val \o Arrow \o after_val>>
              ELSE <<>>)
             \o SummaryLines(Tail(keys), before, after)

\* ResourceChange.change_summary
change_summary(change) ==
    IF DictFalsy(change.before) \/ DictFalsy(change.after)
    THEN <<ActionPrefix \o ActionStr(change.action)>>
    ELSE LET changes == SummaryLines(Sorted(DictKeys(change.before) \cup DictKeys(change.after)),
                                     change.before, change.after)
         IN  IF changes # <<>> THEN changes ELSE <<ActionPrefix \o ActionStr(change.action)>>

\* DriftDetectionEvent.total_changes
total_changes(ev) == Len(ev.resource_changes)

\* DriftDetectionEvent.changes_by_action: the Counter, as action -> count over
\* the actions that occur
changes_by_action(ev) ==
    [a \in {ev.resource_changes[i].action : i \in 1..Len(ev.resource_changes)} |->
        Cardinality({i \in 1..Len(ev.resource_changes) : ev.resource_changes[i].action = a})]

\* ------------------------------------------------------------------------
\* message_formatter.py: composing
\* ------------------------------------------------------------------------

\* mutant: the backslash is treated as one more character to escape
special_chars_WithBackslash ==
    <<"_", "*", "[", "]", "(", ")", "~", BACKTICK, ">", "#", "+", "-", "=", "|", "{", "}", ".",
      "!", "\\">>

special_chars ==
    <<"_", "*", "[", "]", "(", ")", "~", BACKTICK, ">", "#", "+", "-", "=", "|", "{", "}", ".",
      "!">>

\* text.replace(char, "\\" + char)
RECURSIVE ReplaceChar(_, _)
ReplaceChar(text, char) ==
    IF Len(text) = 0 THEN <<>>
    ELSE IF Len(text) = 1
    THEN (IF text[1] = char THEN <<"\\", char>> ELSE text)
    ELSE LET half == Len(text) \div 2
         IN  ReplaceChar(SubSeq(text, 1, half), char)
             \o ReplaceChar(SubSeq(text, half + 1, Len(text)), char)

RECURSIVE EscapeFrom(_, _)
EscapeFrom(escaped, k) ==
    IF k > Len(special_chars) THEN escaped
    ELSE EscapeFrom(ReplaceChar(escaped, special_chars[k]), k + 1)

escape_markdown(text) == EscapeFrom(text, 1)

action_emoji(a) ==
    CASE a = "create" -> PLUS
      [] a = "update" -> MEMO
      [] a = "delete" -> CROSS
      [] a = "replace" -> CYCLE
      [] a = "no-op" -> TICK
      [] OTHER -> BULLET

BulletIndent ==
    <<" ", " ", BULLET, " ">>

format_resource_change(change) ==
    LET summary == change_summary(change)
    IN  Join(<<<<action_emoji(change.action), " ", "*">>
                 \o escape_markdown(display_name(change)) \o <<"*">>>>
             \o [i \in 1..Len(summary) |-> BulletIndent \o escape_markdown(summary[i])],
             <<NL>>)

DriftTitle ==
    <<SIREN, " ", "*", "I", "n", "f", "r", "a", "s", "t", "r", "u", "c", "t", "u", "r",
      "e", " ", "D", "r", "i", "f", "t", " ", "D", "e", "t", "e", "c", "t", "e", "d", "*">>

NoDriftTitle ==
    <<CHECKMARK, " ", "*", "N", "o", " ", "I", "n", "f", "r", "a", "s", "t", "r", "u",
      "c", "t", "u", "r", "e", " ", "D", "r", "i", "f", "t", " ", "D", "e", "t", "e", "c",
      "t", "e", "d", "*">>

EnvironmentLabel ==
    <<"*", "E", "n", "v", "i", "r", "o", "n", "m", "e", "n", "t", ":", "*", " ">>

BranchLabel ==
    <<"*", "B", "r", "a", "n", "c", "h", ":", "*", " ">>

TimeLabel ==
    <<"*", "T", "i", "m", "e", ":", "*", " ">>

ResourcesLabel ==
    <<"*", "R", "e", "s", "o", "u", "r", "c", "e", "s", " ", "A", "f", "f", "e", "c", "t",
      "e", "d", ":", "*", " ">>

ChangesLabel ==
    <<"*", "C", "h", "a", "n", "g", "e", "s", ":", "*", " ">>

AllMatchLine ==
    <<"A", "l", "l", " ", "i", "n", "f", "r", "a", "s", "t", "r", "u", "c", "t", "u", "r",
      "e", " ", "r", "e", "s", "o", "u", "r", "c", "e", "s", " ", "m", "a", "t", "c", "h",
      " ", "t", "h", "e", "i", "r", " ", "e", "x", "p", "e", "c", "t", "e", "d", " ", "s",
      "t", "a", "t", "e", "\\", ".">>

ReportLinkOpen ==
    <<"[", "V", "i", "e", "w", " ", "F", "u", "l", "l", " ", "R", "e", "p", "o", "r", "t",
      "]", "(">>

DetailsLinkOpen ==
    <<"[", "V", "i", "e", "w", " ", "D", "e", "t", "a", "i", "l", "s", "]", "(">>

\* "%02d"
TwoDigits(n) == IF n < 10 THEN <<"0">> \o Digits(n) ELSE Digits(n)

\* timestamp.strftime("%Y\\-m\\-%d %H:%M:%S UTC"): the month directive lacks
\* its percent sign, so a literal m is printed
timestamp_str(t) ==
    Digits(t.year) \o <<"\\", "-", "m", "\\", "-">> \o TwoDigits(t.day) \o <<" ">>
    \o TwoDigits(t.hour) \o <<":">> \o TwoDigits(t.minute) \o <<":">> \o TwoDigits(t.second)
    \o <<" ", "U", "T", "C">>

\* ", ".join(f"{action}: {count}" for action, count in sorted(items))
changes_summary(ev) ==
    LET counts == changes_by_action(ev)
        actions == Sorted({ActionStr(a) : a \in DOMAIN counts})
        CountOf(s) == counts[CHOOSE a \in DOMAIN counts : ActionStr(a) = s]
    IN  Join([i \in 1..Len(actions) |-> actions[i] \o <<":", " ">> \o Digits(CountOf(actions[i]))],
             <<",", " ">>)

RECURSIVE ChangeLines(_)
ChangeLines(changes) ==
    IF changes = <<>> THEN <<>>
    ELSE <<format_resource_change(Head(changes)), <<>>>> \o ChangeLines(Tail(changes))

format_drift_message(ev) ==
    Join(<<DriftTitle, <<>>,
           EnvironmentLabel \o escape_markdown(ev.environment),
           BranchLabel \o escape_markdown(ev.branch),
           TimeLabel \o timestamp_str(ev.timestamp),
           ResourcesLabel \o Digits(total_changes(ev)),
           <<>>>>
         \o (IF DOMAIN changes_by_action(ev) # {}
             THEN <<ChangesLabel \o escape_markdown(changes_summary(ev)), <<>>>>
             ELSE <<>>)
         \o <<separator, <<>>>>
         \o ChangeLines(ev.resource_changes)
         \o (IF ev.workflow_run_url # <<>>
             THEN <<ReportLinkOpen \o ev.workflow_run_url \o <<")">>>>
             ELSE <<>>),
         <<NL>>)

format_no_drift_message(ev) ==
    Join(<<NoDriftTitle, <<>>,
           EnvironmentLabel \o escape_markdown(ev.environment),
           BranchLabel \o escape_markdown(ev.branch),
           TimeLabel \o timestamp_str(ev.timestamp),
           <<>>,
           AllMatchLine>>
         \o (IF ev.workflow_run_url # <<>>
             THEN <<<<>>, DetailsLinkOpen \o ev.workflow_run_url \o <<")">>>>
             ELSE <<>>),
         <<NL>>)

\* ------------------------------------------------------------------------
\* message_formatter.py: splitting
\* ------------------------------------------------------------------------

\* cap on the turns of the fallback loop when effective_max <= 0: no turn
\* shortens long_content then, and the loop never ends
MaxChunks == 6

MAX_MESSAGE_LENGTH == 4096
MESSAGE_BUFFER == 100

\* NotificationPart.content: Field(..., max_length=4096)
PartContentMax == 4096

\* "\\.\\.\\."
Ellipsis == <<"\\", ".", "\\", ".", "\\", ".">>

effective_max == max_length - MESSAGE_BUFFER

\* mutant: the reserved buffer is subtracted a second time
FitsOnePart_BufferTwice(msg, eff) == Len(msg) <= eff - MESSAGE_BUFFER

\* len(message) <= effective_max
FitsOnePart(msg, eff) == Len(msg) <= eff

NotificationPart(i, n, c) ==
    [part_number |-> i, total_parts |-> n, content |-> c, telegram_message_id |-> NoId]

separator_idx(msg) == Find(msg, separator)

SplitHeader(msg) ==
    IF separator_idx(msg) > 0
    THEN SliceTo(msg, separator_idx(msg) + Len(separator) + 1)
    ELSE <<>>

SplitContent(msg) ==
    IF separator_idx(msg) > 0
    THEN SliceFrom(msg, separator_idx(msg) + Len(separator) + 1)
    ELSE msg

\* mutant: the running chunk is closed before every non-blank section
SectionStep_NeverExtends(st, section, eff) ==
    IF IsBlank(section) THEN st
    ELSE [current_part |-> section,
          part_contents |-> IF st.current_part # <<>>
                            THEN Append(st.part_contents, st.current_part)
                            ELSE st.part_contents]

\* One turn of the loop over sections: st = [current_part, part_contents]
SectionStep(st, section, eff) ==
    IF IsBlank(section) THEN st
    ELSE LET test_content == IF st.current_part # <<>>
                             THEN st.current_part \o <<NL, NL>> \o section
                             ELSE section
         IN  IF Len(test_content) > eff
             THEN [current_part |-> section,
                   part_contents |-> IF st.current_part # <<>>
                                     THEN Append(st.part_contents, st.current_part)
                                     ELSE st.part_contents]
             ELSE [current_part |-> test_content, part_contents |-> st.part_contents]

RECURSIVE SectionLoop(_, _, _, _)
SectionLoop(st, sections, k, eff) ==
    IF k > Len(sections) THEN st
    ELSE SectionLoop(SectionStep(st, sections[k], eff), sections, k + 1, eff)

\* The paragraph-level pass, "Add remaining content" included
ParagraphPass(msg, eff) ==
    LET st == SectionLoop([current_part |-> SplitHeader(msg), part_contents |-> <<>>],
                          SplitNN(SplitContent(msg)), 1, eff)
    IN  IF st.current_part # <<>>
        THEN Append(st.part_contents, st.current_part)
        ELSE st.part_contents

\* "If still only one part but too long"
NeedsForceSplit(chunks, eff) == Len(chunks) = 1 /\ Len(chunks[1]) > eff

\* break point of one turn of the fallback loop
BreakPoint(long, eff) ==
    IF RFindNL(long, eff) = -1 THEN eff ELSE RFindNL(long, eff)

part_header(i, n) ==
    <<BELL, " ", "*", "D", "r", "i", "f", "t", " ", "A", "l", "e", "r", "t", " ",
      "\\", "(", "P", "a", "r", "t", " ">>
    \o Digits(i) \o <<"/">> \o Digits(n) \o <<"\\", ")", "*", NL, NL>>

\* "Ensure we don't exceed max length"
Truncate(final_content, maxlen) ==
    IF Len(final_content) > maxlen
    THEN SliceTo(final_content, maxlen - 3) \o Ellipsis
    ELSE final_content

final_content(chunks, i, maxlen) ==
    Truncate(IF Len(chunks) > 1 THEN part_header(i, Len(chunks)) \o chunks[i] ELSE chunks[i],
             maxlen)

\* lines 209-231: the NotificationPart list of the chunks
LabelledParts(chunks, maxlen) ==
    [i \in 1..Len(chunks) |-> NotificationPart(i, Len(chunks), final_content(chunks, i, maxlen))]

\* split_message, lines 141-188: the single-part return (constructing its
\* NotificationPart raises ValidationError when the message is longer than
\* 4096), or the paragraph pass
SplitStart ==
    /\ s_pc = "start"
    /\ IF FitsOnePart(message, effective_max)
       THEN /\ IF Len(message) > PartContentMax
               THEN s_pc' = "raised" /\ UNCHANGED parts
               ELSE parts' = <<NotificationPart(1, 1, message)>> /\ s_pc' = "done"
            /\ UNCHANGED <<part_contents, long_content>>
       ELSE LET chunks == ParagraphPass(message, effective_max)
            IN  IF NeedsForceSplit(chunks, effective_max)
                THEN /\ long_content' = chunks[1]
                     /\ part_contents' = <<>>
                     /\ s_pc' = "fallback"
                     /\ UNCHANGED parts
                ELSE /\ part_contents' = chunks
                     /\ s_pc' = "label"
                     /\ UNCHANGED <<long_content, parts>>
    /\ UNCHANGED <<message, max_length, send_vars, delay_vars, escape_vars, main_vars, peer_vars>>

\* split_message, lines 195-207: one turn of the loop on long_content; the loop is
\* left when the remainder fits or is empty. With effective_max > 0 every turn
\* shortens long_content and the loop runs to its end; with effective_max <= 0
\* it runs for ever, and MaxChunks turns of it are followed
FallbackStep ==
    /\ s_pc = "fallback"
    /\ effective_max > 0 \/ Len(part_contents) < MaxChunks
    /\ IF Len(long_content) <= effective_max
       THEN /\ part_contents' = Append(part_contents, long_content)
            /\ s_pc' = "label"
            /\ UNCHANGED long_content
       ELSE LET break_point == BreakPoint(long_content, effective_max)
                rest == LStripNL(SliceFrom(long_content, break_point))
            IN  /\ part_contents' = Append(part_contents, SliceTo(long_content, break_point))
                /\ long_content' = rest
                /\ s_pc' = IF rest = <<>> THEN "label" ELSE "fallback"
    /\ UNCHANGED <<message, max_length, parts, send_vars, delay_vars, escape_vars, main_vars, peer_vars>>

\* split_message, lines 209-231: number the chunks; constructing a
\* NotificationPart whose content is longer than 4096 raises ValidationError
LabelParts ==
    /\ s_pc = "label"
    /\ LET result == LabelledParts(part_contents, max_length)
       IN  IF \E i \in 1..Len(result) : Len(result[i].content) > PartContentMax
           THEN s_pc' = "raised" /\ UNCHANGED parts
           ELSE s_pc' = "done" /\ parts' = result
    /\ UNCHANGED <<message, max_length, part_contents, long_content, send_vars, delay_vars, escape_vars, main_vars, peer_vars>>

\* ------------------------------------------------------------------------
\* retry_handler.py
\* ------------------------------------------------------------------------

\* The exception classes the program can meet, each with its direct base
\* class (__mro__[1]): telegram.error of python-telegram-bot 20.7 (BadRequest
\* and TimedOut derive from NetworkError), the built-in classes, json's
\* JSONDecodeError and pydantic's ValidationError.
ExcParent(c) ==
    CASE c = "BadRequest" -> "NetworkError"
      [] c = "TimedOut" -> "NetworkError"
      [] c = "NetworkError" -> "TelegramError"
      [] c = "RetryAfter" -> "TelegramError"
      [] c = "InvalidToken" -> "TelegramError"
      [] c = "Forbidden" -> "TelegramError"
      [] c = "ChatMigrated" -> "TelegramError"
      [] c = "Conflict" -> "TelegramError"
      [] c = "EndPointNotFound" -> "TelegramError"
      [] c = "PassportDecryptionError" -> "TelegramError"
      [] c = "TelegramError" -> "Exception"
      [] c = "ConnectionError" -> "OSError"
      [] c = "ConnectionResetError" -> "ConnectionError"
      [] c = "ConnectionRefusedError" -> "ConnectionError"
      [] c = "ConnectionAbortedError" -> "ConnectionError"
      [] c = "BrokenPipeError" -> "ConnectionError"
      [] c = "TimeoutError" -> "OSError"
      [] c = "FileNotFoundError" -> "OSError"
      [] c = "IsADirectoryError" -> "OSError"
      [] c = "NotADirectoryError" -> "OSError"
      [] c = "PermissionError" -> "OSError"
      [] c = "OSError" -> "Exception"
      [] c = "ValidationError" -> "ValueError"
      [] c = "JSONDecodeError" -> "ValueError"
      [] c = "UnicodeDecodeError" -> "UnicodeError"
      [] c = "UnicodeError" -> "ValueError"
      [] c = "ValueError" -> "Exception"
      [] c = "KeyError" -> "LookupError"
      [] c = "IndexError" -> "LookupError"
      [] c = "LookupError" -> "Exception"
      [] c = "RecursionError" -> "RuntimeError"
      [] c = "RuntimeError" -> "Exception"
      [] c = "AttributeError" -> "Exception"
      [] c = "TypeError" -> "Exception"
      [] c = "Exception" -> "BaseException"
      [] c = "KeyboardInterrupt" -> "BaseException"
      [] c = "SystemExit" -> "BaseException"
      [] c = "CancelledError" -> "BaseException"
      [] c = "BaseException" -> "object"

\* isinstance(e, cls) for an exception of class c
RECURSIVE IsInstance(_, _)
IsInstance(c, cls) ==
    \/ c = cls
    \/ (c # "object" /\ IsInstance(ExcParent(c), cls))

RETRYABLE_EXCEPTIONS == {"ConnectionError", "TimeoutError", "NetworkError", "TimedOut", "RetryAfter"}

\* `except RETRYABLE_EXCEPTIONS` catches e
IsRetryable(e) == \E c \in RETRYABLE_EXCEPTIONS : IsInstance(e, c)

\* RetryHandler.__init__ and its defaults
RetryHandler(max_retries, initial_delay, multiplier, max_delay) ==
    [max_retries |-> max_retries, initial_delay |-> initial_delay,
     multiplier |-> multiplier, max_delay |-> max_delay]

DefaultMaxRetries == 3
DefaultInitialDelay == 2
DefaultMultiplier == 2
DefaultMaxDelay == 8

DefaultRetryHandler ==
    RetryHandler(DefaultMaxRetries, DefaultInitialDelay, DefaultMultiplier, DefaultMaxDelay)

\* b ** n
RECURSIVE Pow(_, _)
Pow(b, n) == IF n = 0 THEN 1 ELSE b * Pow(b, n - 1)

\* mutant: the cap by max_delay is left out
calculate_delay_NoCap(h, a) == h.initial_delay * Pow(h.multiplier, a)

\* RetryHandler.calculate_delay
calculate_delay(h, a) ==
    LET delay == h.initial_delay * Pow(h.multiplier, a)
    IN  Min(delay, h.max_delay)

\* RetryHandler.total_retry_time: the delays of attempts 0 .. max_retries - 2
RECURSIVE TotalFrom(_, _)
TotalFrom(h, a) ==
    IF a >= h.max_retries - 1 THEN 0 ELSE calculate_delay(h, a) + TotalFrom(h, a + 1)

total_retry_time(h) == TotalFrom(h, 0)

\* the delay execute_with_retry computes before it sleeps (lines 124-127)
BackoffDelay(h, a) == Min(h.initial_delay * Pow(h.multiplier, a), h.max_delay)

\* `if attempt < self.max_retries - 1`
HasAttemptLeft(h, a) == a < h.max_retries - 1

\* ------------------------------------------------------------------------
\* models.py: TelegramNotification
\* ------------------------------------------------------------------------

NewNotification ==
    [message_parts |-> <<>>, status |-> "pending", retry_count |-> 0,
     sent_at |-> None, error_message |-> None, error_type |-> None]

\* TelegramNotification.mark_sent
mark_sent(n) == [n EXCEPT !.status = "sent", !.sent_at = "utcnow"]

\* TelegramNotification.mark_failed
mark_failed(n, error_type, error_message) ==
    [n EXCEPT !.status = "failed", !.error_message = error_message, !.error_type = error_type]

\* TelegramNotification.mark_retrying
mark_retrying(n) == [n EXCEPT !.status = "retrying", !.retry_count = n.retry_count + 1]

\* ------------------------------------------------------------------------
\* notify_telegram.py: TelegramNotifier
\* ------------------------------------------------------------------------

\* str(e) of an exception the transport raised
TransportErrorText == "transport error text"

InitFailedText == "Bot initialization failed"

\* asyncio.sleep(0.1), in tenths of a second
PacingTenths == 1

\* mutant: the configuration flag is read the wrong way round
Suppressed_FlagInverted(ev, cfg) == ~ev.drift_detected /\ cfg.notify_on_no_drift

\* "Skip notification if no drift and config says not to notify"
Suppressed(ev, cfg) == ~ev.drift_detected /\ ~cfg.notify_on_no_drift

\* mutant: the bot is initialized before the message is composed and split
SendStart_InitFirst ==
    /\ n_pc = "idle"
    /\ IF Suppressed(event, config)
       THEN /\ notification' = [NewNotification EXCEPT !.status = "sent", !.sent_at = "utcnow"]
            /\ n_pc' = "returned"
            /\ UNCHANGED <<message, max_length, s_pc, bot, get_me_calls>>
       ELSE /\ notification' = NewNotification
            /\ bot' = "Bot"
            /\ get_me_calls' = get_me_calls + 1
            /\ message' = IF event.drift_detected
                          THEN format_drift_message(event)
                          ELSE format_no_drift_message(event)
            /\ max_length' = config.max_message_length
            /\ s_pc' = "start"
            /\ n_pc' = "split"
    /\ UNCHANGED <<part_contents, long_content, parts, event, config, retry_handler,
                   part_idx, attempt, raised, inflight, calls, attempt_log,
                   sleeps, delay_vars, escape_vars, main_vars, peer_vars>>

\* send_notification, lines 140-179: create the record; return it as sent when
\* the notification is suppressed, else compose the message and call split_message
SendStart ==
    /\ n_pc = "idle"
    /\ IF Suppressed(event, config)
       THEN /\ notification' = [NewNotification EXCEPT !.status = "sent", !.sent_at = "utcnow"]
            /\ n_pc' = "returned"
            /\ UNCHANGED <<message, max_length, s_pc>>
       ELSE /\ notification' = NewNotification
            /\ message' = IF event.drift_detected
                          THEN format_drift_message(event)
                          ELSE format_no_drift_message(event)
            /\ max_length' = config.max_message_length
            /\ s_pc' = "start"
            /\ n_pc' = "split"
    /\ UNCHANGED <<part_contents, long_content, parts, event, config, bot, retry_handler,
                   part_idx, attempt, raised, inflight, calls, attempt_log, get_me_calls,
                   sleeps, delay_vars, escape_vars, main_vars, peer_vars>>

\* send_notification, lines 179-195: split_message has returned (or raised);
\* the parts go into the record and the bot is initialized if there is none
SplitReturns ==
    /\ n_pc = "split"
    /\ s_pc \in {"done", "raised"}
    /\ IF s_pc = "raised"
       THEN /\ raised' = "ValidationError"
            /\ n_pc' = "raised"
            /\ UNCHANGED <<notification, calls, part_idx>>
       ELSE /\ notification' = [notification EXCEPT !.message_parts = parts]
            /\ calls' = [i \in 1..Len(parts) |-> 0]
            /\ part_idx' = 1
            /\ n_pc' = IF bot = None THEN "init" ELSE "loop"
            /\ UNCHANGED raised
    /\ s_pc' = "idle"
    /\ UNCHANGED <<message, max_length, part_contents, long_content, parts, event, config,
                   bot, retry_handler, attempt, inflight, attempt_log, get_me_calls, sleeps,
                   delay_vars, escape_vars, main_vars, peer_vars>>

\* what get_me can do: return, or raise: a TelegramError, a built-in error of
\* the connection, or the cancellation of the task at the await
GetMeOutcomes == {"ok", "InvalidToken", "NetworkError", "ConnectionError", "CancelledError"}

\* initialize, lines 94-105, called at lines 192-193: self.bot is set and
\* get_me is called; the flow is suspended until get_me returns or raises
Initialize ==
    /\ n_pc = "init"
    /\ bot' = "Bot"
    /\ get_me_calls' = get_me_calls + 1
    /\ n_pc' = "getme"
    /\ UNCHANGED <<split_vars, event, config, retry_handler, notification, part_idx,
                   attempt, raised, inflight, calls, attempt_log, sleeps, delay_vars,
                   escape_vars, main_vars, peer_vars>>

\* initialize, lines 105-123, and lines 193-195: get_me returns, or raises
GetMeReturns(outcome) ==
    /\ n_pc = "getme"
    /\ IF outcome = "ok"
       THEN n_pc' = "loop" /\ UNCHANGED <<notification, raised>>
       ELSE IF IsInstance(outcome, "TelegramError")
       THEN /\ notification' = mark_failed(notification, "Exception", InitFailedText)
            /\ n_pc' = "returned"
            /\ UNCHANGED raised
       ELSE /\ raised' = outcome
            /\ n_pc' = "raised"
            /\ UNCHANGED notification
    /\ UNCHANGED <<split_vars, event, config, bot, retry_handler, part_idx, attempt,
                   inflight, calls, attempt_log, get_me_calls, sleeps, delay_vars,
                   escape_vars, main_vars, peer_vars>>

\* mutant: the attempt index is carried over from one part to the next
LoopNext_AttemptCarried ==
    /\ n_pc = "loop"
    /\ IF part_idx > Len(notification.message_parts)
       THEN /\ notification' = mark_sent(notification)
            /\ n_pc' = "returned"
            /\ UNCHANGED <<attempt, inflight, calls, attempt_log, raised>>
       ELSE IF bot = None
       THEN /\ attempt_log' = <<>>
            /\ raised' = "AttributeError"
            /\ n_pc' = "raised"
            /\ UNCHANGED <<attempt, notification, inflight, calls>>
       ELSE /\ attempt_log' = <<>>
            /\ inflight' = inflight \cup {part_idx}
            /\ calls' = [calls EXCEPT ![part_idx] = @ + 1]
            /\ n_pc' = "awaiting"
            /\ UNCHANGED <<attempt, notification, raised>>
    /\ UNCHANGED <<split_vars, event, config, bot, retry_handler, part_idx,
                   get_me_calls, sleeps, delay_vars, escape_vars, main_vars, peer_vars>>

\* send_notification, lines 199-206: the head of `for part in message_parts`:
\* the next part's first send_message call, or mark_sent after the last part.
\* With self.bot None (another flow closed the notifier) the attribute lookup
\* self.bot.send_message raises AttributeError before any call is made; no
\* except clause on the way catches it
LoopNext ==
    /\ n_pc = "loop"
    /\ IF part_idx > Len(notification.message_parts)
       THEN /\ notification' = mark_sent(notification)
            /\ n_pc' = "returned"
            /\ UNCHANGED <<attempt, inflight, calls, attempt_log, raised>>
       ELSE IF bot = None
       THEN /\ attempt' = 0
            /\ attempt_log' = <<>>
            /\ raised' = "AttributeError"
            /\ n_pc' = "raised"
            /\ UNCHANGED <<notification, inflight, calls>>
       ELSE /\ attempt' = 0
            /\ attempt_log' = <<>>
            /\ inflight' = inflight \cup {part_idx}
            /\ calls' = [calls EXCEPT ![part_idx] = @ + 1]
            /\ n_pc' = "awaiting"
            /\ UNCHANGED <<notification, raised>>
    /\ UNCHANGED <<split_vars, event, config, bot, retry_handler, part_idx,
                   get_me_calls, sleeps, delay_vars, escape_vars, main_vars, peer_vars>>

MessageIds == {41}

\* mutant: the returned message id is not stored on the part
SendMessageReturns_IdDropped(id) ==
    /\ n_pc = "awaiting"
    /\ inflight' = inflight \ {part_idx}
    /\ attempt_log' = Append(attempt_log, "ok")
    /\ LET part == notification.message_parts[part_idx]
       IN  IF part.part_number < part.total_parts
           THEN n_pc' = "pacing" /\ UNCHANGED part_idx
           ELSE n_pc' = "loop" /\ part_idx' = part_idx + 1
    /\ UNCHANGED <<split_vars, event, config, bot, retry_handler, notification, attempt,
                   raised, calls, get_me_calls, sleeps, delay_vars, escape_vars, main_vars, peer_vars>>

\* mutant: the pacing sleep follows every sent part, the last one too
SendMessageReturns_PaceAlways(id) ==
    /\ n_pc = "awaiting"
    /\ inflight' = inflight \ {part_idx}
    /\ attempt_log' = Append(attempt_log, "ok")
    /\ notification' = [notification EXCEPT !.message_parts[part_idx].telegram_message_id = id]
    /\ n_pc' = "pacing"
    /\ UNCHANGED <<split_vars, event, config, bot, retry_handler, part_idx, attempt, raised,
                   calls, get_me_calls, sleeps, delay_vars, escape_vars, main_vars, peer_vars>>

\* _send_message_part.send, lines 245-251, and lines 203-204: send_message
\* returned; the id is stored and the pacing sleep starts when parts remain
SendMessageReturns(id) ==
    /\ n_pc = "awaiting"
    /\ inflight' = inflight \ {part_idx}
    /\ attempt_log' = Append(attempt_log, "ok")
    /\ notification' = [notification EXCEPT !.message_parts[part_idx].telegram_message_id = id]
    /\ LET part == notification.message_parts[part_idx]
       IN  IF part.part_number < part.total_parts
           THEN n_pc' = "pacing" /\ UNCHANGED part_idx
           ELSE n_pc' = "loop" /\ part_idx' = part_idx + 1
    /\ UNCHANGED <<split_vars, event, config, bot, retry_handler, attempt, raised, calls,
                   get_me_calls, sleeps, delay_vars, escape_vars, main_vars, peer_vars>>

\* what bot.shutdown() can do inside close(): return, or raise: a
\* TelegramError of the transport, a built-in error, or the cancellation of
\* the task at the await
ShutdownOutcomes == {"ok", "NetworkError", "RuntimeError", "CancelledError"}

\* what send_message can raise: retryable and fatal TelegramErrors, a built-in
\* retryable error, an error that is neither retryable nor a TelegramError,
\* and the cancellation of the task at the await
SendErrors ==
    {"TimedOut", "BadRequest", "InvalidToken", "ConnectionError", "KeyError", "CancelledError"}

\* mutant: a failed part is logged and the loop goes on to the next part
SendMessageRaises_Continue(e) ==
    /\ n_pc = "awaiting"
    /\ inflight' = inflight \ {part_idx}
    /\ attempt_log' = Append(attempt_log, e)
    /\ IF IsRetryable(e) /\ HasAttemptLeft(retry_handler, attempt)
       THEN /\ n_pc' = "backoff"
            /\ UNCHANGED part_idx
       ELSE /\ n_pc' = "loop"
            /\ part_idx' = part_idx + 1
    /\ UNCHANGED <<split_vars, event, config, bot, retry_handler, notification, attempt,
                   raised, calls, get_me_calls, sleeps, delay_vars, escape_vars, main_vars, peer_vars>>

\* execute_with_retry, lines 120-141, and send_notification, lines 217-230:
\* send_message raised e
SendMessageRaises(e) ==
    /\ n_pc = "awaiting"
    /\ inflight' = inflight \ {part_idx}
    /\ attempt_log' = Append(attempt_log, e)
    /\ IF IsRetryable(e) /\ HasAttemptLeft(retry_handler, attempt)
       THEN /\ n_pc' = "backoff"
            /\ UNCHANGED <<notification, raised>>
       ELSE IF IsInstance(e, "TelegramError")
       THEN /\ notification' = mark_failed(notification, e, TransportErrorText)
            /\ n_pc' = "returned"
            /\ UNCHANGED raised
       ELSE /\ raised' = e
            /\ n_pc' = "raised"
            /\ UNCHANGED notification
    /\ UNCHANGED <<split_vars, event, config, bot, retry_handler, part_idx, attempt, calls,
                   get_me_calls, sleeps, delay_vars, escape_vars, main_vars, peer_vars>>

\* what asyncio.sleep can do: return after the delay, or raise at the await
\* because the task was cancelled
SleepOutcomes == {"ok", "CancelledError"}

\* execute_with_retry, lines 124-132 and 117-119: the backoff sleep is over,
\* the next attempt calls send_message (or fails on self.bot being None); or
\* the sleep raised, and the exception leaves send_notification
BackoffWake(outcome) ==
    /\ n_pc = "backoff"
    /\ IF outcome = "ok"
       THEN /\ sleeps' = Append(sleeps, [kind |-> "backoff", part |-> part_idx,
                                         attempt |-> attempt,
                                         tenths |-> 10 * BackoffDelay(retry_handler, attempt)])
            /\ attempt' = attempt + 1
            /\ IF bot = None
               THEN /\ raised' = "AttributeError"
                    /\ n_pc' = "raised"
                    /\ UNCHANGED <<inflight, calls>>
               ELSE /\ inflight' = inflight \cup {part_idx}
                    /\ calls' = [calls EXCEPT ![part_idx] = @ + 1]
                    /\ n_pc' = "awaiting"
                    /\ UNCHANGED raised
       ELSE /\ raised' = outcome
            /\ n_pc' = "raised"
            /\ UNCHANGED <<sleeps, attempt, inflight, calls>>
    /\ UNCHANGED <<split_vars, event, config, bot, retry_handler, notification, part_idx,
                   attempt_log, get_me_calls, delay_vars, escape_vars, main_vars, peer_vars>>

\* send_notification, lines 203-204: the pacing sleep is over and the loop
\* goes on to the next part; or the sleep raised, and the exception leaves
\* send_notification
PacingWake(outcome) ==
    /\ n_pc = "pacing"
    /\ IF outcome = "ok"
       THEN /\ sleeps' = Append(sleeps, [kind |-> "pacing", part |-> part_idx,
                                         attempt |-> attempt, tenths |-> PacingTenths])
            /\ part_idx' = part_idx + 1
            /\ n_pc' = "loop"
            /\ UNCHANGED raised
       ELSE /\ raised' = outcome
            /\ n_pc' = "raised"
            /\ UNCHANGED <<sleeps, part_idx>>
    /\ UNCHANGED <<split_vars, event, config, bot, retry_handler, notification, attempt,
                   inflight, calls, attempt_log, get_me_calls, delay_vars, escape_vars,
                   main_vars, peer_vars>>

\* ------------------------------------------------------------------------
\* send_notification on a fresh notifier
\* ------------------------------------------------------------------------

SampleTimestamp == [year |-> 2024, month |-> 1, day |-> 5, hour |-> 3, minute |-> 4, second |-> 5]

SampleChangeA ==
    [resource_type |-> <<"a", "w", "s", "_", "i", "n", "s", "t", "a", "n", "c", "e">>,
     resource_name |-> <<"w", "e", "b">>, action |-> "update",
     before |-> Dict(<<<<<<"t", "y", "p", "e">>, <<"t", "2">>>>>>),
     after |-> Dict(<<<<<<"t", "y", "p", "e">>, <<"t", "3">>>>>>)]

SampleChangeB ==
    [resource_type |-> <<"a", "w", "s", "_", "s", "3", "_", "b", "u", "c", "k", "e", "t">>,
     resource_name |-> <<"l", "o", "g", "s">>, action |-> "delete",
     before |-> NoneDict, after |-> NoneDict]

SampleUrl == <<"h", "t", "t", "p", "s", ":", "/", "/", "x", ".", "y", "/", "r", "/", "1">>

\* a link longer than a Telegram message may be
LongUrl == Rep("u", MAX_MESSAGE_LENGTH + 4)

SendEvents ==
    {[timestamp |-> SampleTimestamp,
      environment |-> <<"d", "e", "v">>,
      branch |-> <<"m", "a", "i", "n">>,
      workflow_run_url |-> url,
      drift_detected |-> drift,
      resource_changes |-> changes] :
        url \in {<<>>, SampleUrl}, drift \in BOOLEAN,
        changes \in {<<>>, <<SampleChangeA>>, <<SampleChangeA, SampleChangeB>>}}
    \cup {[timestamp |-> SampleTimestamp,
            environment |-> <<"d", "e", "v">>,
            branch |-> <<"m", "a", "i", "n">>,
            workflow_run_url |-> LongUrl,
            drift_detected |-> TRUE,
            resource_changes |-> <<SampleChangeA>>]}

\* NotificationConfig: max_retries is Field(ge=1, le=5)
MinRetries == 1
MaxRetries == 5

SendConfigs ==
    {[max_retries |-> r, initial_retry_delay |-> DefaultInitialDelay,
      retry_multiplier |-> DefaultMultiplier, max_message_length |-> m,
      notify_on_no_drift |-> n] :
        r \in MinRetries..MaxRetries, m \in {200, MAX_MESSAGE_LENGTH}, n \in BOOLEAN}

\* TelegramNotifier.__init__
InitSend ==
    /\ event \in SendEvents
    /\ config \in SendConfigs
    /\ bot = None
    /\ retry_handler = RetryHandler(config.max_retries, config.initial_retry_delay,
                                    config.retry_multiplier, DefaultMaxDelay)
    /\ notification = NewNotification
    /\ n_pc = "idle"
    /\ part_idx = 0
    /\ attempt = 0
    /\ raised = None
    /\ inflight = {}
    /\ calls = <<>>
    /\ attempt_log = <<>>
    /\ get_me_calls = 0
    /\ sleeps = <<>>
    /\ message = <<>>
    /\ max_length = MAX_MESSAGE_LENGTH
    /\ s_pc = "idle"
    /\ part_contents = <<>>
    /\ long_content = <<>>
    /\ parts = <<>>
    /\ delay_attempt = 0
    /\ delay_result = 0
    /\ escape_text = <<>>
    /\ escape_result = <<>>
    /\ m_pc = "none"
    /\ exit_code = <<>>
    /\ peer_pc = "idle"

NextSend ==
    \/ SendStart
    \/ SplitStart
    \/ FallbackStep
    \/ LabelParts
    \/ SplitReturns
    \/ Initialize
    \/ \E outcome \in GetMeOutcomes : GetMeReturns(outcome)
    \/ LoopNext
    \/ \E id \in MessageIds : SendMessageReturns(id)
    \/ \E e \in SendErrors : SendMessageRaises(e)
    \/ \E outcome \in SleepOutcomes : BackoffWake(outcome)
    \/ \E outcome \in SleepOutcomes : PacingWake(outcome)

SpecSend == InitSend /\ [][NextSend]_vars

\* ------------------------------------------------------------------------
\* calculate_delay on its own, over a family of handlers
\* ------------------------------------------------------------------------

\* largest attempt number tried
MaxAttempt == 6

DelayHandlers ==
    {RetryHandler(r, i, m, d) :
        r \in MinRetries..MaxRetries, i \in 1..3, m \in 1..3, d \in {1, DefaultMaxDelay, 30}}

CalculateDelay(a) ==
    /\ delay_attempt' = a
    /\ delay_result' = calculate_delay(retry_handler, a)
    /\ UNCHANGED <<split_vars, send_vars, escape_vars, main_vars, peer_vars>>

InitDelay ==
    /\ retry_handler \in DelayHandlers
    /\ delay_attempt = 0
    /\ delay_result = calculate_delay(retry_handler, 0)
    /\ event = [drift_detected |-> FALSE]
    /\ config = [max_retries |-> retry_handler.max_retries]
    /\ bot = None
    /\ notification = NewNotification
    /\ n_pc = "idle"
    /\ part_idx = 0
    /\ attempt = 0
    /\ raised = None
    /\ inflight = {}
    /\ calls = <<>>
    /\ attempt_log = <<>>
    /\ get_me_calls = 0
    /\ sleeps = <<>>
    /\ message = <<>>
    /\ max_length = MAX_MESSAGE_LENGTH
    /\ s_pc = "idle"
    /\ part_contents = <<>>
    /\ long_content = <<>>
    /\ parts = <<>>
    /\ escape_text = <<>>
    /\ escape_result = <<>>
    /\ m_pc = "none"
    /\ exit_code = <<>>
    /\ peer_pc = "idle"

NextDelay == \E a \in 0..MaxAttempt : CalculateDelay(a)

SpecDelay == InitDelay /\ [][NextDelay]_vars

\* ------------------------------------------------------------------------
\* split_message on its own, over a family of messages
\* ------------------------------------------------------------------------

SegLens == {0, 1, 12, 31, 105}
Joiners == {<<NL>>, <<NL, NL>>, <<NL, NL, NL>>}
Prefixes == {<<>>, <<"H", NL>> \o separator \o <<NL>>}
SegChars == {"a", " ", "U+00A0"}
SplitMaxLengths == {1, 20, 100, 101, 130, 135, 160, 300}

SplitMessages ==
    {p \o Rep("a", l1) \o j1 \o Rep(c, l2) \o j2 \o Rep("a", l3) :
        p \in Prefixes, l1 \in SegLens, j1 \in Joiners, c \in SegChars,
        l2 \in SegLens, j2 \in Joiners, l3 \in SegLens}

InitSplit ==
    /\ message \in SplitMessages
    /\ max_length \in SplitMaxLengths
    /\ s_pc = "start"
    /\ part_contents = <<>>
    /\ long_content = <<>>
    /\ parts = <<>>
    /\ event = [drift_detected |-> TRUE]
    /\ config = [max_message_length |-> max_length]
    /\ bot = None
    /\ retry_handler = DefaultRetryHandler
    /\ notification = NewNotification
    /\ n_pc = "idle"
    /\ part_idx = 0
    /\ attempt = 0
    /\ raised = None
    /\ inflight = {}
    /\ calls = <<>>
    /\ attempt_log = <<>>
    /\ get_me_calls = 0
    /\ sleeps = <<>>
    /\ delay_attempt = 0
    /\ delay_result = 0
    /\ escape_text = <<>>
    /\ escape_result = <<>>
    /\ m_pc = "none"
    /\ exit_code = <<>>
    /\ peer_pc = "idle"

NextSplit == SplitStart \/ FallbackStep \/ LabelParts

SpecSplit == InitSplit /\ [][NextSplit]_vars

\* ------------------------------------------------------------------------
\* send_notification up to the return of split_message, over a family of
\* events and length limits
\* ------------------------------------------------------------------------

SampleChangeC ==
    [resource_type |-> <<"a", "w", "s", "_", "d", "b">>,
     resource_name |-> <<"m", "a", "i", "n">>, action |-> "update",
     before |-> Dict(<<<<<<"s", "i", "z", "e">>, <<"1", "0">>>>,
                       <<<<"t", "i", "e", "r">>, <<"s">>>>,
                       <<<<"z", "o", "n", "e">>, <<"a">>>>>>),
     after |-> Dict(<<<<<<"s", "i", "z", "e">>, <<"2", "0">>>>,
                      <<<<"t", "i", "e", "r">>, <<"m">>>>,
                      <<<<"z", "o", "n", "e">>, <<"b">>>>>>)]

\* an environment name whose last character is reserved
LongEnvironment == Rep("a", 19) \o <<"_">>

ComposeEvents ==
    {[timestamp |-> SampleTimestamp,
      environment |-> env,
      branch |-> <<"m", "a", "i", "n">>,
      workflow_run_url |-> url,
      drift_detected |-> drift,
      resource_changes |-> changes] :
        env \in {<<"d", "e", "v">>, <<"d", "_", "v">>, LongEnvironment},
        url \in {<<>>, SampleUrl}, drift \in BOOLEAN,
        changes \in {<<>>, <<SampleChangeA>>, <<SampleChangeC>>,
                     <<SampleChangeA, SampleChangeC>>,
                     <<SampleChangeA, SampleChangeB, SampleChangeC>>}}

\* NotificationConfig: max_message_length is Field(ge=1, le=4096)
ComposeMaxLengths == {90, 101, 117, 130, 135, 200, 300, MAX_MESSAGE_LENGTH}

ComposeConfigs ==
    {[max_retries |-> DefaultMaxRetries, initial_retry_delay |-> DefaultInitialDelay,
      retry_multiplier |-> DefaultMultiplier, max_message_length |-> m,
      notify_on_no_drift |-> TRUE] : m \in ComposeMaxLengths}

InitCompose ==
    /\ event \in ComposeEvents
    /\ config \in ComposeConfigs
    /\ bot = None
    /\ retry_handler = RetryHandler(config.max_retries, config.initial_retry_delay,
                                    config.retry_multiplier, DefaultMaxDelay)
    /\ notification = NewNotification
    /\ n_pc = "idle"
    /\ part_idx = 0
    /\ attempt = 0
    /\ raised = None
    /\ inflight = {}
    /\ calls = <<>>
    /\ attempt_log = <<>>
    /\ get_me_calls = 0
    /\ sleeps = <<>>
    /\ message = <<>>
    /\ max_length = MAX_MESSAGE_LENGTH
    /\ s_pc = "idle"
    /\ part_contents = <<>>
    /\ long_content = <<>>
    /\ parts = <<>>
    /\ delay_attempt = 0
    /\ delay_result = 0
    /\ escape_text = <<>>
    /\ escape_result = <<>>
    /\ m_pc = "none"
    /\ exit_code = <<>>
    /\ peer_pc = "idle"

NextCompose ==
    \/ SendStart
    \/ SplitStart
    \/ FallbackStep
    \/ LabelParts
    \/ SplitReturns

SpecCompose == InitCompose /\ [][NextCompose]_vars

\* ------------------------------------------------------------------------
\* one notifier used by two flows: the flow of send_notification above, and a
\* peer flow seen through what it does to self.bot
\* ------------------------------------------------------------------------

\* the places where the flow of send_notification is suspended at an await
AwaitPoints == {"getme", "awaiting", "backoff", "pacing"}

\* the peer flow runs while the flow of send_notification is suspended at an
\* await, has not been started, or has ended
PeerMayRun == n_pc \in AwaitPoints \cup {"idle", "returned", "raised"}

\* cap on the get_me calls the transport sees (a peer may call initialize()
\* any number of times)
MaxGetMeCalls == 3

\* close(), lines 276-277, called by the peer flow: self.bot is set, and the
\* peer is suspended in shutdown(); with self.bot None, close() does nothing
PeerClose ==
    /\ PeerMayRun
    /\ peer_pc = "idle"
    /\ bot # None
    /\ peer_pc' = "shutdown"
    /\ UNCHANGED <<split_vars, send_vars, delay_vars, escape_vars, main_vars>>

\* close(), lines 277-278: shutdown() has returned and self.bot becomes None,
\* or it has raised, close() raises and self.bot stays set
PeerShutdownReturns(outcome) ==
    /\ PeerMayRun
    /\ peer_pc = "shutdown"
    /\ bot' = IF outcome = "ok" THEN None ELSE bot
    /\ peer_pc' = "idle"
    /\ UNCHANGED <<split_vars, event, config, retry_handler, notification, n_pc, part_idx,
                   attempt, raised, inflight, calls, attempt_log, get_me_calls, sleeps,
                   delay_vars, escape_vars, main_vars>>

\* initialize(), lines 94-105, called by the peer flow: self.bot is set to a
\* new Bot, whatever it was, get_me is called and the peer is suspended in it
PeerInitialize ==
    /\ PeerMayRun
    /\ peer_pc = "idle"
    /\ get_me_calls < MaxGetMeCalls
    /\ bot' = "Bot"
    /\ get_me_calls' = get_me_calls + 1
    /\ peer_pc' = "getme"
    /\ UNCHANGED <<split_vars, event, config, retry_handler, notification, n_pc, part_idx,
                   attempt, raised, inflight, calls, attempt_log, sleeps, delay_vars,
                   escape_vars, main_vars>>

\* initialize(), lines 105-123: the peer's get_me has returned or raised;
\* initialize() logs and returns True or False, and self.bot stays as it is
PeerGetMeReturns ==
    /\ PeerMayRun
    /\ peer_pc = "getme"
    /\ peer_pc' = "idle"
    /\ UNCHANGED <<split_vars, send_vars, delay_vars, escape_vars, main_vars>>

SharedConfigs ==
    {[max_retries |-> r, initial_retry_delay |-> DefaultInitialDelay,
      retry_multiplier |-> DefaultMultiplier, max_message_length |-> m,
      notify_on_no_drift |-> n] :
        r \in MinRetries..2, m \in {200, MAX_MESSAGE_LENGTH}, n \in BOOLEAN}

InitShared ==
    /\ event \in SendEvents
    /\ config \in SharedConfigs
    /\ bot = None
    /\ retry_handler = RetryHandler(config.max_retries, config.initial_retry_delay,
                                    config.retry_multiplier, DefaultMaxDelay)
    /\ notification = NewNotification
    /\ n_pc = "idle"
    /\ part_idx = 0
    /\ attempt = 0
    /\ raised = None
    /\ inflight = {}
    /\ calls = <<>>
    /\ attempt_log = <<>>
    /\ get_me_calls = 0
    /\ sleeps = <<>>
    /\ message = <<>>
    /\ max_length = MAX_MESSAGE_LENGTH
    /\ s_pc = "idle"
    /\ part_contents = <<>>
    /\ long_content = <<>>
    /\ parts = <<>>
    /\ delay_attempt = 0
    /\ delay_result = 0
    /\ escape_text = <<>>
    /\ escape_result = <<>>
    /\ m_pc = "none"
    /\ exit_code = <<>>
    /\ peer_pc = "idle"

NextShared ==
    \/ NextSend
    \/ PeerClose
    \/ \E outcome \in ShutdownOutcomes : PeerShutdownReturns(outcome)
    \/ PeerInitialize
    \/ PeerGetMeReturns

SpecShared == InitShared /\ [][NextShared]_vars

\* ------------------------------------------------------------------------
\* change_summary inside a composed message, over a family of before and
\* after mappings
\* ------------------------------------------------------------------------

\* before and after: None, the empty dict, and dicts over two keys
SummaryDicts ==
    {NoneDict, Dict(<<>>),
     Dict(<<<<<<"a">>, <<"1">>>>>>), Dict(<<<<<<"a">>, <<"2">>>>>>),
     Dict(<<<<<<"b">>, <<"1">>>>, <<<<"a">>, <<"1">>>>>>), Dict(<<<<<<"a">>, <<"2">>>>, <<<<"b">>, <<"2">>>>>>),
     Dict(<<<<<<"b">>, NotSet>>>>)}

SummaryEvents ==
    {[timestamp |-> SampleTimestamp,
      environment |-> <<"d", "e", "v">>,
      branch |-> <<"m", "a", "i", "n">>,
      workflow_run_url |-> <<>>,
      drift_detected |-> TRUE,
      resource_changes |-> changes] :
        changes \in {<<>>} \cup
            {<<[resource_type |-> <<"a", "w", "s", "_", "d", "b">>,
                resource_name |-> <<"m", "a", "i", "n">>, action |-> a,
                before |-> b, after |-> f]>> :
                a \in {"create", "update"}, b \in SummaryDicts, f \in SummaryDicts}}

SummaryConfigs ==
    {[max_retries |-> DefaultMaxRetries, initial_retry_delay |-> DefaultInitialDelay,
      retry_multiplier |-> DefaultMultiplier, max_message_length |-> m,
      notify_on_no_drift |-> TRUE] : m \in {200, MAX_MESSAGE_LENGTH}}

InitSummary ==
    /\ event \in SummaryEvents
    /\ config \in SummaryConfigs
    /\ bot = None
    /\ retry_handler = RetryHandler(config.max_retries, config.initial_retry_delay,
                                    config.retry_multiplier, DefaultMaxDelay)
    /\ notification = NewNotification
    /\ n_pc = "idle"
    /\ part_idx = 0
    /\ attempt = 0
    /\ raised = None
    /\ inflight = {}
    /\ calls = <<>>
    /\ attempt_log = <<>>
    /\ get_me_calls = 0
    /\ sleeps = <<>>
    /\ message = <<>>
    /\ max_length = MAX_MESSAGE_LENGTH
    /\ s_pc = "idle"
    /\ part_contents = <<>>
    /\ long_content = <<>>
    /\ parts = <<>>
    /\ delay_attempt = 0
    /\ delay_result = 0
    /\ escape_text = <<>>
    /\ escape_result = <<>>
    /\ m_pc = "none"
    /\ exit_code = <<>>
    /\ peer_pc = "idle"

SpecSummary == InitSummary /\ [][NextCompose]_vars

\* ------------------------------------------------------------------------
\* send_notification run to its end: every accepted max_message_length may
\* be configured (NotificationConfig: ge=1)
\* ------------------------------------------------------------------------

TerminateConfigs ==
    {[max_retries |-> r, initial_retry_delay |-> DefaultInitialDelay,
      retry_multiplier |-> DefaultMultiplier, max_message_length |-> m,
      notify_on_no_drift |-> n] :
        r \in MinRetries..2, m \in {MESSAGE_BUFFER, 200}, n \in BOOLEAN}

InitTerminate ==
    /\ event \in SendEvents
    /\ config \in TerminateConfigs
    /\ bot = None
    /\ retry_handler = RetryHandler(config.max_retries, config.initial_retry_delay,
                                    config.retry_multiplier, DefaultMaxDelay)
    /\ notification = NewNotification
    /\ n_pc = "idle"
    /\ part_idx = 0
    /\ attempt = 0
    /\ raised = None
    /\ inflight = {}
    /\ calls = <<>>
    /\ attempt_log = <<>>
    /\ get_me_calls = 0
    /\ sleeps = <<>>
    /\ message = <<>>
    /\ max_length = MAX_MESSAGE_LENGTH
    /\ s_pc = "idle"
    /\ part_contents = <<>>
    /\ long_content = <<>>
    /\ parts = <<>>
    /\ delay_attempt = 0
    /\ delay_result = 0
    /\ escape_text = <<>>
    /\ escape_result = <<>>
    /\ m_pc = "none"
    /\ exit_code = <<>>
    /\ peer_pc = "idle"

SpecTerminate == InitTerminate /\ [][NextSend]_vars

\* ------------------------------------------------------------------------
\* notify_telegram.py: main
\* ------------------------------------------------------------------------

\* what load_config can do: return the configuration, or raise: ValueError (a
\* required variable is missing), ValidationError (NotificationConfig rejects
\* a value), OSError (load_dotenv on an unreadable .env file)
LoadOutcomes == {"ok", "ValueError", "ValidationError", "OSError"}

\* what parse_drift_report can do: return the event, or raise: no such file
\* (line 297); open on a directory, a socket, an unreadable file or an
\* over-long name, or a read error (lines 299-300); json.load
\* on malformed, wrongly encoded or too deeply nested JSON (line 300); .get on
\* a report or a change that is not an object (lines 304-311); iterating
\* resource_changes that is not a list (line 304); ActionType or fromisoformat
\* on a bad value, fromisoformat on a non-string (lines 309, 316); a model
\* that rejects a field (lines 306-323)
ParseOutcomes ==
    {"ok", "FileNotFoundError", "IsADirectoryError", "PermissionError",
     "OSError", "JSONDecodeError", "UnicodeDecodeError", "RecursionError",
     "AttributeError", "TypeError", "ValueError", "ValidationError"}

\* args.environment: absent, or a name that replaces the report's
\* an --environment value as long as one whole Telegram message
LongOverride == Rep("e", MAX_MESSAGE_LENGTH)

EnvironmentArgs == {<<>>, <<"p", "r", "o", "d">>, LongOverride}

\* the except clauses of main, lines 381-389: FileNotFoundError, ValueError,
\* Exception; a class outside Exception is caught by none of them
CaughtByMain(c) ==
    IsInstance(c, "FileNotFoundError") \/ IsInstance(c, "ValueError") \/ IsInstance(c, "Exception")

\* mutant: the override also recomputes the flag from the change list
MainStart_FlagFromChanges(load, parse, environment) ==
    /\ m_pc = "start"
    /\ IF load # "ok" \/ parse # "ok"
       THEN /\ IF CaughtByMain(IF load # "ok" THEN load ELSE parse)
               THEN m_pc' = "returned" /\ exit_code' = <<1>>
               ELSE m_pc' = "escaped" /\ UNCHANGED exit_code
            /\ UNCHANGED <<event, bot, retry_handler, n_pc>>
       ELSE /\ event' = IF environment # <<>>
                        THEN [event EXCEPT !.environment = environment,
                                           !.drift_detected = event.resource_changes # <<>>]
                        ELSE event
            /\ bot' = None
            /\ retry_handler' = RetryHandler(config.max_retries, config.initial_retry_delay,
                                             config.retry_multiplier, DefaultMaxDelay)
            /\ n_pc' = "idle"
            /\ m_pc' = "sending"
            /\ UNCHANGED exit_code
    /\ UNCHANGED <<split_vars, config, notification, part_idx, attempt, raised, inflight,
                   calls, attempt_log, get_me_calls, sleeps, delay_vars, escape_vars, peer_vars>>

\* main, lines 336-365: load the configuration, parse the report, override the
\* environment, build the notifier and call send_notification; an exception
\* of load_config or parse_drift_report is caught at lines 381-389
MainStart(load, parse, environment) ==
    /\ m_pc = "start"
    /\ IF load # "ok" \/ parse # "ok"
       THEN /\ IF CaughtByMain(IF load # "ok" THEN load ELSE parse)
               THEN m_pc' = "returned" /\ exit_code' = <<1>>
               ELSE m_pc' = "escaped" /\ UNCHANGED exit_code
            /\ UNCHANGED <<event, bot, retry_handler, n_pc>>
       ELSE /\ event' = IF environment # <<>>
                        THEN [event EXCEPT !.environment = environment]
                        ELSE event
            /\ bot' = None
            /\ retry_handler' = RetryHandler(config.max_retries, config.initial_retry_delay,
                                             config.retry_multiplier, DefaultMaxDelay)
            /\ n_pc' = "idle"
            /\ m_pc' = "sending"
            /\ UNCHANGED exit_code
    /\ UNCHANGED <<split_vars, config, notification, part_idx, attempt, raised, inflight,
                   calls, attempt_log, get_me_calls, sleeps, delay_vars, escape_vars, peer_vars>>

\* main, lines 362-389: send_notification raised, and an except clause
\* returns 1 or the exception leaves main; or it returned and close() is
\* called (line 366): with self.bot set, main is suspended in shutdown()
\* (lines 276-277); with self.bot None, close() does nothing and main returns
\* the exit code by the record's status (lines 369-379)
MainFinish ==
    /\ m_pc = "sending"
    /\ n_pc \in {"returned", "raised"}
    /\ IF n_pc = "raised"
       THEN IF CaughtByMain(raised)
            THEN m_pc' = "returned" /\ exit_code' = <<1>>
            ELSE m_pc' = "escaped" /\ UNCHANGED exit_code
       ELSE IF bot # None
            THEN m_pc' = "closing" /\ UNCHANGED exit_code
            ELSE /\ exit_code' = <<IF notification.status = "sent" THEN 0 ELSE 1>>
                 /\ m_pc' = "returned"
    /\ UNCHANGED <<split_vars, send_vars, delay_vars, escape_vars, peer_vars>>

\* main, line 366 and lines 369-389, with close(), lines 277-278: shutdown()
\* returned, self.bot becomes None and the exit code goes by the record's
\* status; or shutdown() raised, self.bot stays set, and an except clause of
\* main returns 1 or the exception leaves main
MainCloseReturns(outcome) ==
    /\ m_pc = "closing"
    /\ IF outcome = "ok"
       THEN /\ bot' = None
            /\ exit_code' = <<IF notification.status = "sent" THEN 0 ELSE 1>>
            /\ m_pc' = "returned"
       ELSE /\ IF CaughtByMain(outcome)
               THEN m_pc' = "returned" /\ exit_code' = <<1>>
               ELSE m_pc' = "escaped" /\ UNCHANGED exit_code
            /\ UNCHANGED bot
    /\ UNCHANGED <<split_vars, event, config, retry_handler, notification, n_pc, part_idx,
                   attempt, raised, inflight, calls, attempt_log, get_me_calls, sleeps,
                   delay_vars, escape_vars, peer_vars>>

\* _from_env sets max_retries and notify_on_no_drift only; the other fields keep
\* the defaults of NotificationConfig
MainConfigs ==
    {[max_retries |-> r, initial_retry_delay |-> DefaultInitialDelay,
      retry_multiplier |-> DefaultMultiplier, max_message_length |-> MAX_MESSAGE_LENGTH,
      notify_on_no_drift |-> n] :
        r \in MinRetries..MaxRetries, n \in BOOLEAN}

\* the process before main runs: the environment holds the configuration, the
\* report file holds the event
InitMain ==
    /\ event \in SendEvents
    /\ config \in MainConfigs
    /\ bot = None
    /\ retry_handler = DefaultRetryHandler
    /\ notification = NewNotification
    /\ n_pc = "none"
    /\ part_idx = 0
    /\ attempt = 0
    /\ raised = None
    /\ inflight = {}
    /\ calls = <<>>
    /\ attempt_log = <<>>
    /\ get_me_calls = 0
    /\ sleeps = <<>>
    /\ message = <<>>
    /\ max_length = MAX_MESSAGE_LENGTH
    /\ s_pc = "idle"
    /\ part_contents = <<>>
    /\ long_content = <<>>
    /\ parts = <<>>
    /\ delay_attempt = 0
    /\ delay_result = 0
    /\ escape_text = <<>>
    /\ escape_result = <<>>
    /\ m_pc = "start"
    /\ exit_code = <<>>
    /\ peer_pc = "idle"

NextMain ==
    \/ \E load \in LoadOutcomes, parse \in ParseOutcomes, environment \in EnvironmentArgs :
          MainStart(load, parse, environment)
    \/ NextSend
    \/ MainFinish
    \/ \E outcome \in ShutdownOutcomes : MainCloseReturns(outcome)

SpecMain == InitMain /\ [][NextMain]_vars

\* ------------------------------------------------------------------------
\* escape_markdown on its own, over a family of texts
\* ------------------------------------------------------------------------

\* longest text tried
MaxTextLen == 3

EscapeAlphabet == {"a", "_", ".", "!", "\\", "*"}

EscapeTexts == UNION {[1..n -> EscapeAlphabet] : n \in 0..MaxTextLen}

EscapeMarkdown(t) ==
    /\ escape_text' = t
    /\ escape_result' = escape_markdown(t)
    /\ UNCHANGED <<split_vars, send_vars, delay_vars, main_vars, peer_vars>>

InitEscape ==
    /\ escape_text = <<>>
    /\ escape_result = escape_markdown(<<>>)
    /\ event = [drift_detected |-> FALSE]
    /\ config = [notify_on_no_drift |-> FALSE]
    /\ bot = None
    /\ retry_handler = DefaultRetryHandler
    /\ notification = NewNotification
    /\ n_pc = "idle"
    /\ part_idx = 0
    /\ attempt = 0
    /\ raised = None
    /\ inflight = {}
    /\ calls = <<>>
    /\ attempt_log = <<>>
    /\ get_me_calls = 0
    /\ sleeps = <<>>
    /\ message = <<>>
    /\ max_length = MAX_MESSAGE_LENGTH
    /\ s_pc = "idle"
    /\ part_contents = <<>>
    /\ long_content = <<>>
    /\ parts = <<>>
    /\ delay_attempt = 0
    /\ delay_result = 0
    /\ m_pc = "none"
    /\ exit_code = <<>>
    /\ peer_pc = "idle"

NextEscape == \E t \in EscapeTexts : EscapeMarkdown(t)

SpecEscape == InitEscape /\ [][NextEscape]_vars

\* ------------------------------------------------------------------------
\* Properties
\* ------------------------------------------------------------------------

Last(seq) == seq[Len(seq)]

PartId(i) == notification.message_parts[i].telegram_message_id

\* send_notification is over: it returned the record, or an exception left it
Ended == n_pc \in {"returned", "raised"}

\* the classifications the specification calls fatal
FatalClasses == {"InvalidToken", "BadRequest", "Forbidden"}

RECURSIVE SumRetries(_, _)
SumRetries(c, i) == IF i > Len(c) THEN 0 ELSE Max(c[i] - 1, 0) + SumRetries(c, i + 1)

\* number of re-attempts (send_message calls after the first, per part) so far
RetriesMade == SumRetries(calls, 1)

\* C1: every fragment split_message returns has len(content) <= max_length,
\* truncated fragments included
C1_FragmentWithinMaxLength ==
    s_pc = "done" => \A i \in 1..Len(parts) : Len(parts[i].content) <= max_length

\* C2: when every attempt for a fragment fails with a member of
\* RETRYABLE_EXCEPTIONS, exactly max_retries attempts are made for it and
\* send_notification ends with a Failed record whose error type is that class
C2_RetryExhaustionFails ==
    (/\ Ended
     /\ attempt_log # <<>>
     /\ \A j \in 1..Len(attempt_log) : attempt_log[j] \in RETRYABLE_EXCEPTIONS)
    => /\ calls[part_idx] = retry_handler.max_retries
       /\ n_pc = "returned"
       /\ notification.status = "failed"
       /\ notification.error_type = Last(attempt_log)

\* C3: an attempt that fails with a fatal classification is the last attempt
\* for the fragment, no backoff wait follows, and the record is Failed at once
C3_FatalShortCircuit ==
    \A j \in 1..Len(attempt_log) :
        attempt_log[j] \in FatalClasses
        => /\ j = Len(attempt_log)
           /\ calls[part_idx] = j
           /\ part_idx \notin inflight
           /\ n_pc = "returned"
           /\ notification.status = "failed"

\* C4: with drift_detected false and notify_on_no_drift false no transport
\* call is made (no get_me, no send_message) and the record returned is Sent,
\* with sent_at set and no fragments
C4_NoDriftSuppression ==
    (~event.drift_detected /\ ~config.notify_on_no_drift)
    => /\ get_me_calls = 0
       /\ bot = None
       /\ calls = <<>>
       /\ inflight = {}
       /\ n_pc \in {"idle", "returned"}
       /\ n_pc = "returned" => /\ notification.status = "sent"
                               /\ notification.sent_at # None
                               /\ notification.message_parts = <<>>

C4_Witness ==
    /\ n_pc = "returned"
    /\ ~event.drift_detected
    /\ ~config.notify_on_no_drift
    /\ notification.status = "sent"

\* C5: at most one send_message call is in flight at any time, and the first
\* call for a fragment after the first is made only when the previous call
\* returned successfully for the fragment before it
C5_SequentialSends ==
    /\ [](Cardinality(inflight) <= 1)
    /\ [][\A i \in 2..Len(calls) :
            (Len(calls') = Len(calls) /\ calls[i] = 0 /\ calls'[i] > 0)
            => /\ calls[i - 1] > 0
               /\ attempt_log # <<>>
               /\ Last(attempt_log) = "ok"
               /\ PartId(i - 1) # NoId
               /\ inflight = {}
               /\ inflight' = {i}]_vars

C5_Witness ==
    /\ Len(calls) >= 3
    /\ calls[2] > 1
    /\ calls[3] > 0
    /\ inflight = {3}

\* C6: in a send that is not suppressed, the record is Sent only if every
\* fragment has a remote message id, and then sent_at is set; a fragment's id
\* is set only in the step in which a send_message call for that fragment
\* returns successfully
C6_SentMeansAllIds ==
    /\ []((~(~event.drift_detected /\ ~config.notify_on_no_drift)
            /\ notification.status = "sent")
          => /\ notification.sent_at # None
             /\ \A i \in 1..Len(notification.message_parts) : PartId(i) # NoId)
    /\ [](\A i \in 1..Len(notification.message_parts) :
            PartId(i) # NoId
            => \/ i < part_idx
               \/ (i = part_idx /\ attempt_log # <<>> /\ Last(attempt_log) = "ok"))
    /\ [][\A i \in 1..Len(notification.message_parts) :
            (/\ Len(notification.message_parts') = Len(notification.message_parts)
             /\ notification.message_parts'[i].telegram_message_id # PartId(i))
            => /\ PartId(i) = NoId
               /\ i = part_idx
               /\ i \in inflight
               /\ attempt_log' = Append(attempt_log, "ok")]_vars

C6_Witness ==
    /\ n_pc = "returned"
    /\ notification.status = "sent"
    /\ Len(notification.message_parts) >= 2
    /\ \A i \in 1..Len(notification.message_parts) : PartId(i) # NoId
    /\ \E i \in 1..Len(calls) : calls[i] > 1

\* C7: once a fragment has failed terminally (a fatal classification, or the
\* last permitted attempt failed) no later fragment is sent, the record is
\* Failed with error type and message, and exactly the fragments before the
\* failed one have a remote id
C7_TerminalFailureStops ==
    (\E j \in 1..Len(attempt_log) :
        /\ attempt_log[j] # "ok"
        /\ (attempt_log[j] \in FatalClasses \/ j = retry_handler.max_retries))
    => /\ n_pc = "returned"
       /\ notification.status = "failed"
       /\ notification.error_type # None
       /\ notification.error_message # None
       /\ \A i \in 1..Len(notification.message_parts) : (PartId(i) # NoId) <=> (i < part_idx)
       /\ \A i \in 1..Len(calls) : i > part_idx => calls[i] = 0

\* C8: retry_count counts the retry attempts made during send_notification
\* and never exceeds max_retries
C8_RetryCountTracksRetries ==
    /\ notification.retry_count = RetriesMade
    /\ notification.retry_count <= config.max_retries

\* C10: a message within the effective limit comes back as one fragment 1/1
\* whose content is the message itself
C10_SingleFragment ==
    (s_pc = "done" /\ Len(message) <= max_length - 100)
    => parts = <<[part_number |-> 1, total_parts |-> 1, content |-> message,
                  telegram_message_id |-> NoId]>>

C10_Witness ==
    /\ s_pc = "done"
    /\ Len(message) <= max_length - 100
    /\ Len(message) > 100
    /\ \E i \in 1..(Len(message) - 1) : message[i] = NL /\ message[i + 1] = NL
    /\ Len(parts) = 1

\* C9: calculate_delay(attempt) is min(initial_delay * multiplier^attempt,
\* max_delay); it never exceeds max_delay, and the default handler gives
\* 2, 4, 8 for attempts 0, 1, 2
C9_DelayFormula ==
    LET uncapped == retry_handler.initial_delay * (retry_handler.multiplier ^ delay_attempt)
    IN  /\ delay_result = (IF uncapped < retry_handler.max_delay
                           THEN uncapped ELSE retry_handler.max_delay)
        /\ delay_result <= retry_handler.max_delay
        /\ (/\ retry_handler.initial_delay = 2
            /\ retry_handler.multiplier = 2
            /\ retry_handler.max_delay = 8
            /\ delay_attempt <= 2)
           => delay_result = <<2, 4, 8>>[delay_attempt + 1]

C9_Witness ==
    /\ retry_handler = [max_retries |-> 3, initial_delay |-> 2, multiplier |-> 2, max_delay |-> 8]
    /\ delay_attempt = 3
    /\ delay_result = 8

\* the content of a part without the part header split_message put before it
WithoutPartHeader(p) ==
    LET h == part_header(p.part_number, p.total_parts)
    IN  IF p.total_parts > 1 /\ SliceTo(p.content, Len(h)) = h
        THEN SliceFrom(p.content, Len(h))
        ELSE p.content

\* the parts' contents, headers removed, concatenated in list order
RECURSIVE Reassembled(_)
Reassembled(ps) ==
    IF ps = <<>> THEN <<>> ELSE WithoutPartHeader(Head(ps)) \o Reassembled(Tail(ps))

\* the indices at which sub occurs in s
Occurrences(s, sub) ==
    {i \in 0..(Len(s) - Len(sub)) : SubSeq(s, i + 1, i + Len(sub)) = sub}

\* the resource blocks of the composed drift message, in order
ResourceBlocks(ev) ==
    [k \in 1..Len(ev.resource_changes) |-> format_resource_change(ev.resource_changes[k])]

\* C11: when a composed drift message was split into several fragments, the
\* fragment contents without their part headers, concatenated in part order,
\* contain every resource block exactly once and in the original order
C11_BlocksSurviveSplit ==
    (s_pc = "done" /\ event.drift_detected /\ Len(parts) > 1)
    => LET body == Reassembled(parts)
           blocks == ResourceBlocks(event)
       IN  /\ \A k \in 1..Len(blocks) : Cardinality(Occurrences(body, blocks[k])) = 1
           /\ \A k \in 1..(Len(blocks) - 1) :
                \A i \in Occurrences(body, blocks[k]), j \in Occurrences(body, blocks[k + 1]) :
                    i < j

\* C12: the fragments are numbered 1..n in list order with total_parts = n;
\* with n > 1 every content begins with the part header of its own i/n, and
\* with n = 1 the content carries no part header
C12_PartNumbering ==
    s_pc = "done"
    => LET n == Len(parts)
       IN  /\ \A i \in 1..n : parts[i].part_number = i /\ parts[i].total_parts = n
           /\ n > 1 => \A i \in 1..n :
                SliceTo(parts[i].content, Len(part_header(i, n))) = part_header(i, n)
           /\ n = 1 => SliceTo(parts[1].content, Len(part_header(1, 1))) # part_header(1, 1)

\* the lines of a block
RECURSIVE Lines(_)
Lines(s) ==
    LET idx == Find(s, <<NL>>)
    IN  IF idx = -1 THEN <<s>> ELSE <<SliceTo(s, idx)>> \o Lines(SliceFrom(s, idx + 1))

\* C13: a resource block that fits the effective limit on its own is found
\* whole inside one fragment, and a block is only ever divided or cut short at
\* a newline, so that each of its lines is found whole inside some fragment
C13_NoCutInsideBlock ==
    (s_pc = "done" /\ event.drift_detected /\ Len(parts) > 1)
    => LET blocks == ResourceBlocks(event)
       IN  \A k \in 1..Len(blocks) :
             /\ Len(blocks[k]) <= max_length - 100
                => \E i \in 1..Len(parts) : Occurrences(parts[i].content, blocks[k]) # {}
             /\ \A l \in 1..Len(Lines(blocks[k])) :
                  \E i \in 1..Len(parts) :
                      Occurrences(parts[i].content, Lines(blocks[k])[l]) # {}

\* the characters escape_markdown is documented to escape
ReservedChars ==
    {"_", "*", "[", "]", "(", ")", "~", BACKTICK, ">", "#", "+", "-", "=", "|", "{", "}", ".",
     "!"}

\* one pass over the text that puts a backslash before each reserved character
RECURSIVE BackslashBeforeReserved(_)
BackslashBeforeReserved(t) ==
    IF t = <<>> THEN <<>>
    ELSE (IF Head(t) \in ReservedChars THEN <<"\\", Head(t)>> ELSE <<Head(t)>>)
         \o BackslashBeforeReserved(Tail(t))

\* C15: escape_markdown returns the text with a backslash put immediately
\* before each reserved character and nothing else changed; a text without
\* reserved characters comes back unchanged
C15_EscapeInsertsBackslashes ==
    /\ escape_result = BackslashBeforeReserved(escape_text)
    /\ (\A i \in 1..Len(escape_text) : escape_text[i] \notin ReservedChars)
       => escape_result = escape_text

C15_Witness ==
    /\ escape_text = <<"_", "\\", ".">>
    /\ escape_result = <<"\\", "_", "\\", "\\", ".">>


\* C16: in every fragment each reserved character that comes from input data
\* is immediately preceded by its escape backslash. The underscore is the
\* tracer: in the events composed here it occurs in the environment and in the
\* resource types only, never in the fixed text or in the link
C16_ReservedStaysEscaped ==
    s_pc = "done"
    => \A i \in 1..Len(parts) :
         \A j \in 1..Len(parts[i].content) :
            parts[i].content[j] = "_" => (j > 1 /\ parts[i].content[j - 1] = "\\")

\* C14: main never lets an exception out; when it has returned, the exit code
\* is 0 exactly when send_notification returned a record whose status is Sent,
\* and 1 otherwise
C14_MainExitCode ==
    /\ m_pc # "escaped"
    /\ m_pc = "returned"
       => /\ exit_code \in {<<0>>, <<1>>}
          /\ exit_code = <<0>> <=> (n_pc = "returned" /\ notification.status = "sent")

\* C17: while the message is being composed and split, and after split_message
\* has failed, send_notification has made no transport call: no bot, no
\* get_me, no send_message, no wait
C17_NoNetworkBeforeSplit ==
    (n_pc = "split" \/ (n_pc = "raised" /\ raised = "ValidationError"))
    => /\ bot = None
       /\ get_me_calls = 0
       /\ inflight = {}
       /\ \A i \in 1..Len(calls) : calls[i] = 0
       /\ sleeps = <<>>

C17_Witness ==
    /\ n_pc = "raised"
    /\ raised = "ValidationError"
    /\ Len(message) > MAX_MESSAGE_LENGTH
    /\ get_me_calls = 0

\* no transport call of this flow (get_me, send_message) has raised
OwnCallsSucceeded ==
    /\ \A i \in 1..Len(calls) : calls[i] <= 1
    /\ attempt_log # <<>> => Last(attempt_log) = "ok"
    /\ notification.error_message # InitFailedText
    /\ raised \notin (GetMeOutcomes \cup SendErrors)

\* C18: on a notifier that another flow uses at the same time, the outcome of
\* a send depends on its own transport calls only: when none of them failed
\* and splitting succeeded, the flow ends with a Sent record in which every
\* fragment has its id
C18_FlowsIndependent ==
    (/\ Ended
     /\ ~(~event.drift_detected /\ ~config.notify_on_no_drift)
     /\ raised # "ValidationError"
     /\ OwnCallsSucceeded)
    => /\ n_pc = "returned"
       /\ notification.status = "sent"
       /\ \A i \in 1..Len(notification.message_parts) : PartId(i) # NoId

\* the backoff waits slept for part p, in tenths of a second, in order
BackoffTenths(p) ==
    LET IsBackoffOf(r) == r.kind = "backoff" /\ r.part = p
        waits == SelectSeq(sleeps, IsBackoffOf)
    IN  [k \in 1..Len(waits) |-> waits[k].tenths]

\* C19: with the default settings (3 attempts, 2 s, factor 2, cap 8 s) a
\* fragment whose every attempt fails with a retryable error goes through the
\* waits 2 s, 4 s, 8 s, and the total retry window is 14 s
C19_DefaultBackoffSequence ==
    (/\ retry_handler = DefaultRetryHandler
     /\ Ended
     /\ Len(attempt_log) = retry_handler.max_retries
     /\ \A j \in 1..Len(attempt_log) : attempt_log[j] # "ok" /\ IsRetryable(attempt_log[j]))
    => /\ BackoffTenths(part_idx) = <<20, 40, 80>>
       /\ total_retry_time(retry_handler) = 14

\* the zero-based attempt numbers after which part p waited, in order
BackoffAttempts(p) ==
    LET IsBackoffOf(r) == r.kind = "backoff" /\ r.part = p
        waits == SelectSeq(sleeps, IsBackoffOf)
    IN  [k \in 1..Len(waits) |-> waits[k].attempt]

\* C20: each wait after failed attempt a lasts calculate_delay(a); for every
\* fragment the waits follow attempts 0, 1, 2, ... from 0 again, one wait
\* before each re-attempt, and a fragment gets at most max_retries attempts
C20_BackoffPerFragment ==
    /\ \A k \in 1..Len(sleeps) :
          sleeps[k].kind = "backoff"
          => sleeps[k].tenths = 10 * calculate_delay(retry_handler, sleeps[k].attempt)
    /\ \A p \in 1..Len(calls) :
          /\ BackoffAttempts(p) = [k \in 1..Len(BackoffAttempts(p)) |-> k - 1]
          /\ calls[p] > 0 => calls[p] = Len(BackoffAttempts(p)) + 1
          /\ calls[p] <= retry_handler.max_retries

C20_Witness ==
    /\ Len(calls) >= 2
    /\ calls[1] = 3
    /\ calls[2] = 3
    /\ retry_handler.max_retries = 3
    /\ BackoffTenths(2) = <<20, 40>>

\* how many pacing sleeps followed part p
PacingCount(p) ==
    LET IsPacingOf(r) == r.kind = "pacing" /\ r.part = p
    IN  Len(SelectSeq(sleeps, IsPacingOf))

\* C21: one pacing sleep of a tenth of a second follows part p exactly when
\* p was sent and is not the last part; none follows the last part, the only
\* part of a one-part record, or a part whose sending failed
C21_PacingOnlyBetweenParts ==
    LET n == Len(notification.message_parts)
    IN  /\ \A k \in 1..Len(sleeps) :
              sleeps[k].kind = "pacing"
              => /\ sleeps[k].part \in 1..(n - 1)
                 /\ sleeps[k].tenths = PacingTenths
                 /\ notification.message_parts[sleeps[k].part].telegram_message_id # NoId
        /\ \A p \in 1..n :
              PacingCount(p) = IF p < n /\ part_idx > p THEN 1 ELSE 0
        /\ n_pc = "pacing"
              => /\ part_idx < n
                 /\ notification.message_parts[part_idx].telegram_message_id # NoId

C21_Witness ==
    /\ n_pc = "returned"
    /\ notification.status = "sent"
    /\ Len(notification.message_parts) = 3
    /\ PacingCount(1) = 1
    /\ PacingCount(2) = 1
    /\ PacingCount(3) = 0

\* the sections of the content that the loop does not skip
NonBlankSections(msg) ==
    LET IsNotBlank(sec) == ~IsBlank(sec)
    IN  SelectSeq(SplitNN(SplitContent(msg)), IsNotBlank)

\* the header, when there is one, followed by the sections the loop keeps
KeptPieces(msg) ==
    (IF SplitHeader(msg) # <<>> THEN <<SplitHeader(msg)>> ELSE <<>>) \o NonBlankSections(msg)

\* C22: the chunks of the paragraph pass are the header and the non-blank
\* sections in order, joined by blank lines; a chunk after the first holds no
\* blank section; and a chunk was closed only because the next section did
\* not fit: chunk k, a blank line and the first section of chunk k + 1 are
\* together longer than the effective limit
C22_GreedyParagraphPass ==
    LET chunks == ParagraphPass(message, effective_max)
    IN  (s_pc # "idle" /\ ~FitsOnePart(message, effective_max))
        => /\ Join(chunks, <<NL, NL>>) = Join(KeptPieces(message), <<NL, NL>>)
           /\ \A k \in 2..Len(chunks) :
                 /\ \A j \in 1..Len(SplitNN(chunks[k])) : ~IsBlank(SplitNN(chunks[k])[j])
                 /\ Len(chunks[k - 1]) + 2 + Len(SplitNN(chunks[k])[1]) > effective_max
           /\ (s_pc = "label" /\ ~NeedsForceSplit(chunks, effective_max))
                 => part_contents = chunks

C22_Witness ==
    /\ s_pc = "label"
    /\ effective_max > 0
    /\ part_contents = ParagraphPass(message, effective_max)
    /\ Len(part_contents) = 2
    /\ Len(KeptPieces(message)) = 3
    /\ Len(SplitNN(SplitContent(message))) > Len(NonBlankSections(message))

\* C23: when a message is split, every chunk is at most effective_max long
\* before its part header is put in front
C23_ChunksWithinEffectiveMax ==
    (s_pc = "label" /\ Len(part_contents) > 1)
    => \A k \in 1..Len(part_contents) : Len(part_contents[k]) <= effective_max

\* C24: split_message terminates for every max_length in 1..4096, because each
\* turn of the fallback loop that does not leave the loop makes the
\* remaining text strictly shorter
C24_FallbackShortens ==
    [][(s_pc = "fallback" /\ s_pc' = "fallback") => Len(long_content') < Len(long_content)]_vars

\* send_message calls made for parts i, i + 1, ...
RECURSIVE TotalCalls(_)
TotalCalls(i) == IF i > Len(calls) THEN 0 ELSE calls[i] + TotalCalls(i + 1)

\* steps one part can take at most: the loop head, max_retries calls, the
\* backoff sleeps between them, and the pacing sleep
StepsPerPart == 2 * retry_handler.max_retries + 2

\* steps left from the moment part p is done
StepsAfterPart(p) == (Len(notification.message_parts) - p) * StepsPerPart + 1

\* the message send_notification composes for the event
Composed ==
    IF event.drift_detected THEN format_drift_message(event) ELSE format_no_drift_message(event)

\* an upper bound on the steps send_notification still has to take
StepsLeft ==
    CASE n_pc = "idle" -> (2 * Len(Composed) + 2) * StepsPerPart + 8
      [] n_pc = "split" /\ s_pc = "start" -> (2 * Len(message) + 2) * StepsPerPart + 7
      [] n_pc = "split" /\ s_pc = "fallback" ->
            (Len(part_contents) + 2 * Len(long_content) + 1) * StepsPerPart + 6
      [] n_pc = "split" /\ s_pc = "label" -> Len(part_contents) * StepsPerPart + 5
      [] n_pc = "split" /\ s_pc \in {"done", "raised"} -> Len(parts) * StepsPerPart + 4
      [] n_pc = "init" -> StepsAfterPart(0) + 2
      [] n_pc = "getme" -> StepsAfterPart(0) + 1
      [] n_pc = "loop" -> StepsAfterPart(part_idx) + StepsPerPart
      [] n_pc = "awaiting" -> StepsAfterPart(part_idx) + StepsPerPart - 1 - 2 * attempt
      [] n_pc = "backoff" -> StepsAfterPart(part_idx) + StepsPerPart - 2 - 2 * attempt
      [] n_pc = "pacing" -> StepsAfterPart(part_idx) + 1
      [] OTHER -> 0

\* C25: every send_notification call comes to an end: each step brings it
\* nearer to its end (the bound StepsLeft falls and is never negative), with
\* at most max_retries send_message calls for one part, at most
\* total_parts * max_retries calls in all, and at most
\* total_parts * (max_retries - 1) backoff sleeps
C25_SendTerminates ==
    [][/\ StepsLeft' < StepsLeft
       /\ StepsLeft' >= 0
       /\ LET n == Len(notification'.message_parts)
              IsBackoff(r) == r.kind = "backoff"
          IN  /\ \A p \in 1..Len(calls') : calls'[p] <= retry_handler.max_retries
              /\ TotalCalls(1)' <= n * retry_handler.max_retries
              /\ Len(SelectSeq(sleeps', IsBackoff)) <= n * (retry_handler.max_retries - 1)
      ]_vars

\* send_notification ended right after a get_me call and before any
\* send_message call although there were parts to send: initialize failed
InitializeFailed ==
    /\ Ended
    /\ get_me_calls > 0
    /\ Len(notification.message_parts) > 0
    /\ \A p \in 1..Len(calls) : calls[p] = 0

\* C26: when initialize fails, send_notification returns the record with
\* status failed and an error recorded, no send_message call was made, no
\* part has a message id and sent_at is unset
C26_InitFailureReturnsFailed ==
    InitializeFailed
    => /\ n_pc = "returned"
       /\ notification.status = "failed"
       /\ notification.error_type # None
       /\ notification.error_message # None
       /\ notification.sent_at = None
       /\ \A p \in 1..Len(notification.message_parts) : PartId(p) = NoId

\* the first characters of s are p
StartsWith(s, p) == Len(s) >= Len(p) /\ SubSeq(s, 1, Len(p)) = p

\* C27: the event the record refers to keeps the flag and the change list it
\* came with: only main's override changes the event, and only its
\* environment; send_notification changes no field, and it decides on
\* suppression and on the kind of message by the declared flag alone
C27_EventPassedThrough ==
    [][/\ event' = [event EXCEPT !.environment = event'.environment]
       /\ event' # event => (m_pc = "start" /\ m_pc' = "sending")
       /\ (n_pc = "idle" /\ n_pc' # "idle")
             => /\ n_pc' = "returned" <=> (~event.drift_detected /\ ~config.notify_on_no_drift)
                /\ n_pc' = "split" => (StartsWith(message', DriftTitle) <=> event.drift_detected)
      ]_vars

C27_Witness ==
    /\ m_pc = "returned"
    /\ exit_code = <<0>>
    /\ event.environment = <<"p", "r", "o", "d">>
    /\ ~event.drift_detected
    /\ event.resource_changes # <<>>
    /\ notification.status = "sent"
    /\ get_me_calls = 0

\* the keys whose values differ between the two mappings, a key missing on
\* one side counting as differing, in ascending order
DifferingKeys(change) ==
    LET all_keys == DictKeys(change.before) \cup DictKeys(change.after)
    IN  Sorted({k \in all_keys :
                  \/ k \notin DictKeys(change.before)
                  \/ k \notin DictKeys(change.after)
                  \/ DictGet(change.before, k, NotSet) # DictGet(change.after, k, NotSet)})

\* the summary the statement of C28 describes
DescribedSummary(change) ==
    IF change.before.is_none \/ change.after.is_none \/ DifferingKeys(change) = <<>>
    THEN <<ActionPrefix \o ActionStr(change.action)>>
    ELSE [i \in 1..Len(DifferingKeys(change)) |->
            DifferingKeys(change)[i] \o <<":", " ">>
            \o DictGet(change.before, DifferingKeys(change)[i], NotSet) \o Arrow
            \o DictGet(change.after, DifferingKeys(change)[i], NotSet)]

\* the bullet lines of a summary as they stand in the message
BulletLines(summary) ==
    Join([i \in 1..Len(summary) |-> BulletIndent \o escape_markdown(summary[i])], <<NL>>)

\* C28: the block of a resource in the composed message lists one entry for
\* each key that differs between before and after, in ascending key order,
\* and the single entry "Action: <action>" only when before or after is None
\* or no key differs; an empty mapping counts as a mapping
C28_SummaryListsDifferingKeys ==
    (n_pc = "split" /\ event.drift_detected)
    => \A k \in 1..Len(event.resource_changes) :
          LET change == event.resource_changes[k]
          IN  /\ change_summary(change) = DescribedSummary(change)
              /\ Occurrences(message, <<"*", NL>> \o BulletLines(DescribedSummary(change))
                                      \o <<NL>>) # {}

====
